---- MODULE Spec2Model ----
(***************************************************************************)
(* Model of scripts/folder-hierarchy-generator.py: the recursive builder   *)
(* get_folder_hierarchy and the command-line driver main.                  *)
(*                                                                         *)
(* A file or directory name is a sequence of one-character strings, so     *)
(* that str.startswith('.') is computed on the name itself.  A path below  *)
(* the traversal root is a sequence of names; <<>> is the root.            *)
(*                                                                         *)
(* A Python dict is a function from names to values.  A value is a record  *)
(* [isMap, map, msg]: a nested dict (isMap, map) or a string (msg).        *)
(***************************************************************************)
EXTENDS Integers, Sequences, FiniteSets, TLC

VARIABLES
    fs,               \* the directory tree: path below the root -> kind of entry
    rootName,         \* name of the root directory inside its parent directory
    cwd,              \* the process's working directory (absolute components)
    start_path,       \* args.path, split at "/" (line 52)
    ignore_folders,   \* args.ignore (line 54)
    outWritable,      \* whether open(output_file, 'w') succeeds
    pc,               \* position of main
    stdout,           \* the messages printed so far
    outfile,          \* content of the output file
    opens,            \* number of times the output file was opened for writing
    folder_hierarchy, \* main's local of line 71
    builder,          \* "idle", "running", "returned" or "raised"
    stack,            \* call stack of get_folder_hierarchy frames
    retval,           \* the dict the outermost call returned
    listed,           \* path -> number of times os.listdir was called on it
    failures          \* the exceptions raised so far and where they were caught

vars == <<fs, rootName, cwd, start_path, ignore_folders, outWritable, pc, stdout,
          outfile, opens, folder_hierarchy, builder, stack, retval, listed, failures>>

env == <<fs, rootName, cwd, start_path, ignore_folders, outWritable>>

-----------------------------------------------------------------------------
(* Names *)

NmProject     == <<"p","r","o","j","e","c","t">>
NmSrc         == <<"s","r","c">>
NmUtils       == <<"u","t","i","l","s">>
NmCache       == <<".","c","a","c","h","e">>
NmNodeModules == <<"n","o","d","e","_","m","o","d","u","l","e","s">>
NmReadme      == <<"R","E","A","D","M","E",".","m","d">>
NmError       == <<"e","r","r","o","r">>
NmHome        == <<"h","o","m","e">>
NmDot         == <<".">>
NmEmpty       == <<>>

\* item.name.startswith('.')
StartsWithDot(name) == Len(name) >= 1 /\ name[1] = "."

-----------------------------------------------------------------------------
(* Bounds of the model *)

\* Depth of the deepest get_folder_hierarchy frame in which pathlib's helper
\* calls still fit under the interpreter's recursion limit (the root is 1).
RecursionLimit == 3

\* Number of nested "utils" directories that may exist below src/utils.
MaxChain == 2

-----------------------------------------------------------------------------
(* The directory trees *)

ChainPath(k) == <<NmSrc>> \o [i \in 1..k |-> NmUtils]

\* Every path of the model, parents before children.
PathSeq ==
    << <<>>, <<NmSrc>>, <<NmNodeModules>>, <<NmReadme>>, <<NmError>>,
       <<NmSrc, NmCache>>, <<NmSrc, NmCache, NmUtils>>, <<NmNodeModules, NmSrc>> >>
    \o [k \in 1..(MaxChain + 1) |-> ChainPath(k)]

Paths == {PathSeq[i] : i \in 1..Len(PathSeq)}

Parent(p) == SubSeq(p, 1, Len(p) - 1)
Child(p, name) == Append(p, name)
BaseName(p) == p[Len(p)]

DirKinds == {"dir", "noread", "nosearch", "ioerr"}

KindsAt(p) ==
    IF p = <<>> THEN {"none", "file", "dir", "noread"}
    ELSE IF p = <<NmSrc>> THEN {"none", "dir", "noread", "nosearch", "ioerr"}
    ELSE IF p = ChainPath(1) THEN {"none", "dir", "noread"}
    ELSE IF p = <<NmReadme>> THEN {"none", "file"}
    ELSE {"none", "dir"}

RECURSIVE Extend(_, _)
Extend(t, i) ==
    IF i > Len(PathSeq) THEN {t}
    ELSE LET p  == PathSeq[i]
             ks == IF p = <<>> \/ t[Parent(p)] \in DirKinds THEN KindsAt(p) ELSE {"none"}
         IN  UNION {Extend(t @@ (p :> k), i + 1) : k \in ks}

Trees == Extend(<<>>, 1)

-----------------------------------------------------------------------------
(* The filesystem interface the program consumes *)

\* os.path.exists(start_path), line 57
exists(t) == t[<<>>] # "none"

\* os.path.isdir(start_path), line 62
isdir(t) == t[<<>>] \in DirKinds

\* The names os.listdir returns for a directory that can be listed.
Entries(t, p) == {BaseName(q) : q \in {c \in Paths : Len(c) = Len(p) + 1
                                               /\ Parent(c) = p /\ t[c] # "none"}}

\* Path.is_dir() of an entry whose stat succeeds.
is_dir(t, p) == t[p] \in DirKinds

\* Python's exceptions: [type, msg]; msg is str(e).
EACCES   == [type |-> "PermissionError", msg |-> "[Errno 13] Permission denied"]
EIO      == [type |-> "OSError", msg |-> "[Errno 5] Input/output error"]
TooDeep  == [type |-> "RecursionError",
             msg |-> "maximum recursion depth exceeded while calling a Python object"]
ENOTDIR  == [type |-> "OSError", msg |-> "[Errno 20] Not a directory"]
NoError  == [type |-> "none", msg |-> ""]

Bases(cls) ==
    IF cls = "PermissionError" THEN {"PermissionError", "OSError", "Exception"}
    ELSE IF cls = "OSError" THEN {"OSError", "Exception"}
    ELSE IF cls = "RecursionError" THEN {"RecursionError", "RuntimeError", "Exception"}
    ELSE {cls}

IsInstance(e, cls) == cls \in Bases(e.type)

-----------------------------------------------------------------------------
(* Python values *)

EmptyDict == <<>>
DictVal(m) == [isMap |-> TRUE, map |-> m, msg |-> ""]
StrVal(s)  == [isMap |-> FALSE, map |-> <<>>, msg |-> s]

\* d[k] = v
SetItem(d, k, v) == [x \in (DOMAIN d) \cup {k} |-> IF x = k THEN v ELSE d[x]]

\* {"error": text}, lines 38 and 40
ErrorDict(text) == SetItem(EmptyDict, NmError, StrVal(text))

-----------------------------------------------------------------------------
(* get_folder_hierarchy, lines 6-40 *)

\* The exception the comprehension of lines 26-29 raises in a frame of the
\* given depth, or NoError.  os.listdir is called first; Path.is_dir is called
\* for every entry that is not hidden (before the ignore test); in a frame
\* deeper than RecursionLimit building the Path of the first entry exhausts
\* the interpreter's stack.
ListingError(t, p, depth) ==
    IF t[p] = "noread" THEN EACCES
    ELSE IF t[p] = "ioerr" THEN EIO
    ELSE IF t[p] \notin DirKinds THEN ENOTDIR
    ELSE IF Entries(t, p) = {} THEN NoError
    ELSE IF depth > RecursionLimit THEN TooDeep
    ELSE IF t[p] = "nosearch" /\ \E n \in Entries(t, p) : ~StartsWithDot(n) THEN EACCES
    ELSE NoError

\* Retained without the item.is_dir() test of line 28
Retained_NoDirTest(t, p, ignore) ==
    {n \in Entries(t, p) : ~StartsWithDot(n) /\ n \notin ignore}

\* Retained without the ignore_folders test of line 29
Retained_NoIgnoreTest(t, p, ignore) ==
    {n \in Entries(t, p) : ~StartsWithDot(n) /\ is_dir(t, Child(p, n))}

\* Retained without the startswith('.') test of line 27
Retained_NoDotTest(t, p, ignore) ==
    {n \in Entries(t, p) : is_dir(t, Child(p, n)) /\ n \notin ignore}

\* lines 26-29: the entries kept
Retained(t, p, ignore) ==
    {n \in Entries(t, p) : /\ ~StartsWithDot(n)
                           /\ is_dir(t, Child(p, n))
                           /\ n \notin ignore}

\* Handler with the except clauses in the other order: except Exception first
Handler_ExceptionFirst(e) == ErrorDict(e.msg)

\* lines 37-40: the dict an except clause returns
Handler(e) ==
    IF IsInstance(e, "PermissionError") THEN ErrorDict("Permission denied")
    ELSE ErrorDict(e.msg)

\* Catches without the except Exception clause of line 39
Catches_OnlyPermission(e) == IsInstance(e, "PermissionError")

\* lines 37-40: whether an except clause matches
Catches(e) == IsInstance(e, "PermissionError") \/ IsInstance(e, "Exception")

\* A frame: the directory being built, the line it is at ("enter": line 17,
\* "loop": line 32), the items not yet processed and the local result.
Frame(p) == [path |-> p, line |-> "enter", items |-> {}, result |-> EmptyDict]

Top(stk) == stk[Len(stk)]
Front(stk) == SubSeq(stk, 1, Len(stk) - 1)

\* The callee for directory p returns dict d to the frames in stk: line 34
\* stores it under item.name, or the outermost call returns it to main.
Return(stk, p, d) ==
    IF stk = <<>>
    THEN [stack |-> <<>>, builder |-> "returned", retval |-> d]
    ELSE [stack |-> [stk EXCEPT ![Len(stk)].result = SetItem(@, BaseName(p), DictVal(d))],
          builder |-> "running", retval |-> EmptyDict]

\* Exception e is raised in the top frame of stk, inside its try block or not.
\* An exception no clause catches leaves the frame and surfaces at line 34 of
\* the caller, which is inside the caller's try block.
RECURSIVE Raise(_, _, _)
Raise(stk, e, inTry) ==
    IF stk = <<>>
    THEN [stack |-> <<>>, builder |-> "raised", retval |-> EmptyDict]
    ELSE IF inTry /\ Catches(e)
    THEN Return(Front(stk), Top(stk).path, Handler(e))
    ELSE Raise(Front(stk), e, TRUE)

\* No frame: the exception leaves the outermost call.
Uncaught == << <<"?">> >>

\* The path of the frame whose except clause catches e, or Uncaught.
RECURSIVE CaughtAt(_, _, _)
CaughtAt(stk, e, inTry) ==
    IF stk = <<>> THEN Uncaught
    ELSE IF inTry /\ Catches(e) THEN Top(stk).path
    ELSE CaughtAt(Front(stk), e, TRUE)

-----------------------------------------------------------------------------
(* os.path, lines 57-72 *)

\* os.path.normpath of an absolute path given as its components
RECURSIVE normpath(_)
normpath(comps) ==
    IF comps = <<>> THEN <<>>
    ELSE LET rest == normpath(Front(comps))
             c    == Top(comps)
         IN  IF c = NmEmpty \/ c = NmDot THEN rest
             ELSE IF c = <<".", ".">> THEN (IF rest = <<>> THEN <<>> ELSE Front(rest))
             ELSE Append(rest, c)

\* os.path.abspath of a relative path: normpath(join(os.getcwd(), path))
abspath(dir, path) == normpath(dir \o path)

\* os.path.basename: what follows the last "/"
basename(comps) == IF comps = <<>> THEN NmEmpty ELSE Top(comps)

\* RootKey without os.path.abspath
RootKey_NoAbspath(dir, path) == basename(path)

\* The key of line 71
RootKey(dir, path) == basename(abspath(dir, path))

-----------------------------------------------------------------------------
(* The runs *)

OldDoc == SetItem(EmptyDict, <<"o","l","d">>, DictVal(EmptyDict))
NoFile == [exists |-> FALSE, doc |-> EmptyDict]
OldFile == [exists |-> TRUE, doc |-> OldDoc]

\* json.dump(folder_hierarchy, f, indent=2, ensure_ascii=False) into the
\* file just truncated by open(output_file, 'w'), lines 75-76
json_dump(doc) == [exists |-> TRUE, doc |-> doc]

Msg(text, path, names) == [text |-> text, path |-> path, names |-> names]

Invocations ==
    { [rootName |-> NmProject, cwd |-> <<NmHome>>, start_path |-> <<NmProject>>,
       ignore |-> {}, outWritable |-> TRUE, outfile |-> NoFile],
      [rootName |-> NmProject, cwd |-> <<NmHome>>, start_path |-> <<NmProject, NmEmpty>>,
       ignore |-> {NmNodeModules}, outWritable |-> TRUE, outfile |-> OldFile],
      [rootName |-> NmProject, cwd |-> <<NmHome, NmProject>>, start_path |-> <<NmDot>>,
       ignore |-> {NmNodeModules, NmUtils}, outWritable |-> FALSE, outfile |-> OldFile],
      [rootName |-> NmCache, cwd |-> <<NmHome>>, start_path |-> <<NmCache>>,
       ignore |-> {NmError}, outWritable |-> TRUE, outfile |-> NoFile],
      [rootName |-> NmNodeModules, cwd |-> <<NmHome>>, start_path |-> <<NmDot, NmNodeModules>>,
       ignore |-> {NmNodeModules, NmError}, outWritable |-> TRUE, outfile |-> OldFile],
      [rootName |-> NmCache, cwd |-> <<NmHome, NmCache>>, start_path |-> <<NmDot, NmEmpty>>,
       ignore |-> {}, outWritable |-> FALSE, outfile |-> NoFile] }

\* The state after parse_args and lines 52-54.
Init ==
    /\ fs \in Trees
    /\ \E inv \in Invocations :
         /\ rootName = inv.rootName
         /\ cwd = inv.cwd
         /\ start_path = inv.start_path
         /\ ignore_folders = inv.ignore
         /\ outWritable = inv.outWritable
         /\ outfile = inv.outfile
    /\ pc = "start"
    /\ stdout = <<>>
    /\ opens = 0
    /\ folder_hierarchy = EmptyDict
    /\ builder = "idle"
    /\ stack = <<>>
    /\ retval = EmptyDict
    /\ listed = [p \in Paths |-> 0]
    /\ failures = {}

-----------------------------------------------------------------------------
(* main, lines 42-78 *)

\* lines 57-59
PathMissing ==
    /\ pc = "start"
    /\ ~exists(fs)
    /\ stdout' = Append(stdout, Msg("Error: Path does not exist.", start_path, {}))
    /\ pc' = "done"
    /\ UNCHANGED <<env, outfile, opens, folder_hierarchy, builder, stack, retval,
                   listed, failures>>

\* PathNotDirectory tested before the existence check of line 57
PathNotDirectory_BeforeMissing ==
    /\ pc = "start"
    /\ ~isdir(fs)
    /\ stdout' = Append(stdout, Msg("Error: Path is not a directory.", start_path, {}))
    /\ pc' = "done"
    /\ UNCHANGED <<env, outfile, opens, folder_hierarchy, builder, stack, retval,
                   listed, failures>>

\* PathNotDirectory without the return of line 64
PathNotDirectory_NoReturn ==
    /\ pc = "start"
    /\ exists(fs)
    /\ ~isdir(fs)
    /\ stdout' = Append(stdout, Msg("Error: Path is not a directory.", start_path, {}))
    /\ pc' = "validated"
    /\ UNCHANGED <<env, outfile, opens, folder_hierarchy, builder, stack, retval,
                   listed, failures>>

\* lines 62-64
PathNotDirectory ==
    /\ pc = "start"
    /\ exists(fs)
    /\ ~isdir(fs)
    /\ stdout' = Append(stdout, Msg("Error: Path is not a directory.", start_path, {}))
    /\ pc' = "done"
    /\ UNCHANGED <<env, outfile, opens, folder_hierarchy, builder, stack, retval,
                   listed, failures>>

\* lines 57-69 when both checks pass
Validate ==
    /\ pc = "start"
    /\ exists(fs)
    /\ isdir(fs)
    /\ stdout' = stdout
                 \o <<Msg("Building folder hierarchy from", start_path, {})>>
                 \o (IF ignore_folders # {}
                     THEN <<Msg("Ignoring folders:", <<>>, ignore_folders)>>
                     ELSE <<>>)
    /\ pc' = "validated"
    /\ UNCHANGED <<env, outfile, opens, folder_hierarchy, builder, stack, retval,
                   listed, failures>>

\* line 72: the call get_folder_hierarchy(start_path, ignore_folders)
CallBuilder ==
    /\ pc = "validated"
    /\ builder = "idle"
    /\ builder' = "running"
    /\ stack' = <<Frame(<<>>)>>
    /\ UNCHANGED <<env, pc, stdout, outfile, opens, folder_hierarchy, retval,
                   listed, failures>>

\* lines 17-29 without failure: the listing is filtered into items
ListItems ==
    /\ builder = "running"
    /\ Top(stack).line = "enter"
    /\ ListingError(fs, Top(stack).path, Len(stack)) = NoError
    /\ stack' = [stack EXCEPT ![Len(stack)].line = "loop",
                              ![Len(stack)].items =
                                  Retained(fs, Top(stack).path, ignore_folders)]
    /\ listed' = [listed EXCEPT ![Top(stack).path] = @ + 1]
    /\ UNCHANGED <<env, pc, stdout, outfile, opens, folder_hierarchy, builder,
                   retval, failures>>

\* lines 17-29 raising, and the except clause of lines 37-40
ListFails ==
    /\ builder = "running"
    /\ Top(stack).line = "enter"
    /\ LET e == ListingError(fs, Top(stack).path, Len(stack))
           r == Raise(stack, e, TRUE)
       IN  /\ e # NoError
           /\ stack' = r.stack
           /\ builder' = r.builder
           /\ retval' = r.retval
           /\ pc' = IF r.builder = "raised" THEN "failed" ELSE pc
           /\ failures' = failures \cup
                  {[at |-> Top(stack).path, type |-> e.type,
                    by |-> CaughtAt(stack, e, TRUE)]}
    /\ listed' = [listed EXCEPT ![Top(stack).path] = @ + 1]
    /\ UNCHANGED <<env, stdout, outfile, opens, folder_hierarchy>>

\* Descend leaving the loop after its first item
Descend_SkipsRest ==
    /\ builder = "running"
    /\ Top(stack).line = "loop"
    /\ \E n \in Top(stack).items :
         stack' = Append([stack EXCEPT ![Len(stack)].items = {}],
                         Frame(Child(Top(stack).path, n)))
    /\ UNCHANGED <<env, pc, stdout, outfile, opens, folder_hierarchy, builder,
                   retval, listed, failures>>

\* lines 32-34: the loop takes the next item and calls itself on it
Descend ==
    /\ builder = "running"
    /\ Top(stack).line = "loop"
    /\ \E n \in Top(stack).items :
         stack' = Append([stack EXCEPT ![Len(stack)].items = @ \ {n}],
                         Frame(Child(Top(stack).path, n)))
    /\ UNCHANGED <<env, pc, stdout, outfile, opens, folder_hierarchy, builder,
                   retval, listed, failures>>

\* line 36: the loop is over and the frame returns its result
ReturnResult ==
    /\ builder = "running"
    /\ Top(stack).line = "loop"
    /\ Top(stack).items = {}
    /\ LET r == Return(Front(stack), Top(stack).path, Top(stack).result)
       IN  /\ stack' = r.stack
           /\ builder' = r.builder
           /\ retval' = r.retval
    /\ UNCHANGED <<env, pc, stdout, outfile, opens, folder_hierarchy, listed, failures>>

\* lines 71-72: the returned dict is wrapped under the root's base name
Wrap ==
    /\ pc = "validated"
    /\ builder = "returned"
    /\ folder_hierarchy' = SetItem(EmptyDict, RootKey(cwd, start_path), DictVal(retval))
    /\ pc' = "built"
    /\ UNCHANGED <<env, stdout, outfile, opens, builder, stack, retval, listed, failures>>

\* lines 75-76
WriteFile ==
    /\ pc = "built"
    /\ outWritable
    /\ opens' = opens + 1
    /\ outfile' = json_dump(folder_hierarchy)
    /\ pc' = "written"
    /\ UNCHANGED <<env, stdout, folder_hierarchy, builder, stack, retval, listed, failures>>

\* line 75 raising: open fails and nothing catches it
OpenFails ==
    /\ pc = "built"
    /\ ~outWritable
    /\ opens' = opens + 1
    /\ pc' = "failed"
    /\ UNCHANGED <<env, stdout, outfile, folder_hierarchy, builder, stack, retval,
                   listed, failures>>

\* line 78
ReportSaved ==
    /\ pc = "written"
    /\ stdout' = Append(stdout, Msg("Folder hierarchy saved to", <<>>, {}))
    /\ pc' = "done"
    /\ UNCHANGED <<env, outfile, opens, folder_hierarchy, builder, stack, retval,
                   listed, failures>>

Next ==
    \/ PathMissing
    \/ PathNotDirectory
    \/ Validate
    \/ CallBuilder
    \/ ListItems
    \/ ListFails
    \/ Descend
    \/ ReturnResult
    \/ Wrap
    \/ WriteFile
    \/ OpenFails
    \/ ReportSaved

Spec == Init /\ [][Next]_vars

\* main runs to its end: nothing suspends it
FairSpec == Spec /\ WF_vars(Next)

-----------------------------------------------------------------------------
(* Vocabulary of the properties *)

KindOf(p) == IF p \in Paths THEN fs[p] ELSE "none"

\* The names of the subdirectories of directory p.
SubdirNames(p) == {n \in Entries(fs, p) : fs[Child(p, n)] \in DirKinds}

\* Every key of d, at every nesting level.
RECURSIVE AllKeys(_)
AllKeys(d) == (DOMAIN d) \cup UNION {AllKeys(d[k].map) : k \in DOMAIN d}

\* The keys of d, at every nesting level, whose value is a dict.
RECURSIVE DirKeys(_)
DirKeys(d) == {k \in DOMAIN d : d[k].isMap} \cup UNION {DirKeys(d[k].map) : k \in DOMAIN d}

\* d is an error sentinel: {"error": <string>}.
IsSentinel(d) == DOMAIN d = {NmError} /\ ~d[NmError].isMap

\* Path p leads through dicts of d.
RECURSIVE InDict(_, _)
InDict(d, p) ==
    \/ p = <<>>
    \/ /\ Head(p) \in DOMAIN d
       /\ d[Head(p)].isMap
       /\ InDict(d[Head(p)].map, Tail(p))

\* The dict found in d along path p.
RECURSIVE Sub(_, _)
Sub(d, p) == IF p = <<>> THEN d ELSE Sub(d[Head(p)].map, Tail(p))

\* d with what is stored at path p taken out.
RECURSIVE Without(_, _)
Without(d, p) ==
    IF p = <<>> THEN EmptyDict
    ELSE IF Head(p) \notin DOMAIN d THEN d
    ELSE IF Len(p) = 1 THEN [k \in (DOMAIN d) \ {Head(p)} |-> d[k]]
    ELSE SetItem(d, Head(p), DictVal(Without(d[Head(p)].map, Tail(p))))

\* The hierarchy of directory p of tree t, built in a frame of the given
\* depth, written as the recursion of lines 17-40.
RECURSIVE Hierarchy(_, _, _)
Hierarchy(t, p, depth) ==
    IF ListingError(t, p, depth) # NoError
    THEN Handler(ListingError(t, p, depth))
    ELSE [n \in Retained(t, p, ignore_folders) |->
              DictVal(Hierarchy(t, Child(p, n), depth + 1))]

\* Entries of the tree other than the root itself.
TreeEntries == {p \in Paths : p # <<>> /\ fs[p] # "none"}

NoHiddenEntries == \A p \in TreeEntries : ~StartsWithDot(BaseName(p))
NoIgnoredEntries == \A p \in TreeEntries : BaseName(p) \notin ignore_folders

\* Every directory can be listed and its entries type-checked.
AllListable == \A p \in Paths : fs[p] \in DirKinds => fs[p] = "dir"

\* No directory is nested deeper than the recursion limit allows.
WithinDepth == \A p \in Paths : fs[p] \in DirKinds => Len(p) + 1 <= RecursionLimit

\* At every nesting level the key set is the set of subdirectory names.
RECURSIVE KeysAreSubdirs(_, _)
KeysAreSubdirs(d, p) ==
    /\ DOMAIN d = SubdirNames(p)
    /\ \A k \in DOMAIN d : d[k].isMap /\ KeysAreSubdirs(d[k].map, Child(p, k))

Finished == pc \in {"done", "failed"}

-----------------------------------------------------------------------------
(* C1 *)

-----------------------------------------------------------------------------
(* C2 *)

\* C2 as stated: no name of the ignore set is a key at any nesting level of
\* the dict get_folder_hierarchy returns.
C2_AsStated ==
    builder = "returned" => AllKeys(retval) \cap ignore_folders = {}

\* C2, amended: no name of the ignore set is a key that stands for a
\* directory (a key whose value is a dict) at any nesting level of the
\* returned dict, even when a visible directory of that name exists; the key
\* "error" of an error sentinel is not a directory name and appears whether
\* or not "error" is ignored.
C2_NoIgnoredDirectory ==
    builder = "returned" =>
        /\ DirKeys(retval) \cap ignore_folders = {}
        /\ \A k \in AllKeys(retval) \cap ignore_folders : k = NmError

C2_Witness ==
    /\ builder = "returned"
    /\ NmNodeModules \in ignore_folders
    /\ fs[<<NmNodeModules, NmSrc>>] = "dir"
    /\ fs[<<NmSrc, NmUtils>>] = "dir"
    /\ NmUtils \in ignore_folders
    /\ DOMAIN retval = {NmSrc}

-----------------------------------------------------------------------------
(* C3 *)

\* C3 as stated: no key that starts with a dot appears anywhere in the
\* document main builds from the tree.
C3_AsStated ==
    pc \in {"built", "written", "done", "failed"} =>
        \A k \in AllKeys(folder_hierarchy) : ~StartsWithDot(k)

\* C3, amended: no key that starts with a dot appears anywhere in the dict
\* get_folder_hierarchy returns, that is anywhere below the top-level key of
\* the document; the top-level key is the root's base name, dot or not.
C3_NoHiddenKey ==
    /\ builder = "returned" => \A k \in AllKeys(retval) : ~StartsWithDot(k)
    /\ pc \in {"built", "written", "done", "failed"} =>
         \A r \in DOMAIN folder_hierarchy :
            \A k \in AllKeys(folder_hierarchy[r].map) : ~StartsWithDot(k)

C3_Witness ==
    /\ pc = "done"
    /\ StartsWithDot(rootName)
    /\ fs[<<NmSrc, NmCache, NmUtils>>] = "dir"
    /\ fs[<<NmSrc, NmUtils>>] = "dir"
    /\ NmSrc \in DOMAIN retval
    /\ DOMAIN retval[NmSrc].map = {NmUtils}

-----------------------------------------------------------------------------
(* C9 *)

\* Every key of d, sentinels included, names a visible, non-ignored
\* directory that is an immediate child of the corresponding directory.
RECURSIVE EveryKeyIsDirectory(_, _)
EveryKeyIsDirectory(d, p) ==
    \A k \in DOMAIN d :
        /\ KindOf(Child(p, k)) \in DirKinds
        /\ ~StartsWithDot(k)
        /\ k \notin ignore_folders
        /\ EveryKeyIsDirectory(d[k].map, Child(p, k))

\* Every key of d outside error sentinels names such a directory.
RECURSIVE EveryDirKeyIsDirectory(_, _)
EveryDirKeyIsDirectory(d, p) ==
    \/ IsSentinel(d)
    \/ \A k \in DOMAIN d :
        /\ d[k].isMap
        /\ KindOf(Child(p, k)) \in DirKinds
        /\ ~StartsWithDot(k)
        /\ k \notin ignore_folders
        /\ EveryDirKeyIsDirectory(d[k].map, Child(p, k))

\* C9 as stated: in the returned dict every key, at every nesting level, is
\* the name of a visible, non-ignored directory that is an immediate child
\* of the corresponding directory.
C9_AsStated ==
    builder = "returned" => EveryKeyIsDirectory(retval, <<>>)

\* C9, amended: in the returned dict every key, at every nesting level, is
\* the name of a visible, non-ignored directory that is an immediate child
\* of the corresponding directory, except the single key "error" of an error
\* sentinel, whose value is a string; no file name is ever a key.
C9_KeysAreDirectories ==
    builder = "returned" => EveryDirKeyIsDirectory(retval, <<>>)

C9_Witness ==
    /\ builder = "returned"
    /\ fs[<<NmReadme>>] = "file"
    /\ fs[<<NmSrc>>] = "noread"
    /\ fs[<<NmError>>] = "dir"
    /\ NmSrc \in DOMAIN retval
    /\ IsSentinel(retval[NmSrc].map)
    /\ NmError \in DOMAIN retval

-----------------------------------------------------------------------------
(* C4 *)

IsStrictPrefix(p, q) == Len(p) < Len(q) /\ SubSeq(q, 1, Len(p)) = p

PermissionDenied == ErrorDict("Permission denied")

\* The tree with directory p made readable.
MadeReadable(p) == [fs EXCEPT ![p] = "dir"]

\* C4: a directory whose listing fails with a permission failure yields
\* {"error": "Permission denied"} at exactly that node, nothing beneath it is
\* listed, and the rest of the returned dict (every sibling, every ancestor)
\* is what it would be if the directory were readable.
C4_PermissionDenied ==
    builder = "returned" =>
        \A p \in Paths :
            (fs[p] = "noread" /\ listed[p] > 0) =>
                /\ InDict(retval, p)
                /\ Sub(retval, p) = PermissionDenied
                /\ \A q \in Paths : IsStrictPrefix(p, q) => listed[q] = 0
                /\ \A f \in failures : f.at = p => f.by = p
                /\ Without(retval, p) = Without(Hierarchy(MadeReadable(p), <<>>, 1), p)

C4_Witness ==
    /\ builder = "returned"
    /\ fs[<<NmSrc, NmUtils>>] = "noread"
    /\ fs[ChainPath(2)] = "dir"
    /\ fs[<<NmSrc, NmCache>>] = "dir"
    /\ fs[<<NmError>>] = "dir"
    /\ fs[<<NmNodeModules, NmSrc>>] = "dir"
    /\ ignore_folders = {}
    /\ listed[<<NmSrc, NmUtils>>] = 1
    /\ DOMAIN retval = {NmSrc, NmError, NmNodeModules}

-----------------------------------------------------------------------------
(* C5 *)

\* C5: every failure during the traversal (listing, type check, recursion
\* depth) is caught in the frame of the node where it is raised and becomes
\* an error sentinel at that node; nothing is thrown to the caller, and the
\* call returns a dict.
C5_FailuresBecomeSentinels ==
    /\ builder # "raised"
    /\ pc = "failed" => builder = "returned"
    /\ \A f \in failures :
         /\ f.by = f.at
         /\ builder = "returned" =>
              (InDict(retval, f.at) /\ IsSentinel(Sub(retval, f.at)))

C5_Witness ==
    /\ builder = "returned"
    /\ \E f \in failures : f.type = "RecursionError"
    /\ fs[<<NmError>>] = "dir"
    /\ NmError \in DOMAIN retval

-----------------------------------------------------------------------------
(* C6 *)

\* The output file as it was when the run started.
InitialOutfile ==
    (CHOOSE inv \in Invocations :
        inv.cwd = cwd /\ inv.start_path = start_path /\ inv.ignore = ignore_folders).outfile

\* C6: for a root that does not exist, or is not a directory, main prints
\* the matching message ("does not exist" going first) and returns: the
\* builder is never called, nothing is listed and the output file is neither
\* opened nor changed.
C6_InvalidRoot ==
    (pc = "done" /\ ~(exists(fs) /\ isdir(fs))) =>
        /\ stdout = << Msg(IF ~exists(fs) THEN "Error: Path does not exist."
                                         ELSE "Error: Path is not a directory.",
                           start_path, {}) >>
        /\ builder = "idle"
        /\ stack = <<>>
        /\ \A p \in Paths : listed[p] = 0
        /\ opens = 0
        /\ outfile = InitialOutfile

C6_Witness ==
    /\ pc = "done"
    /\ fs[<<>>] = "file"
    /\ outfile = OldFile
    /\ Len(stdout) = 1

-----------------------------------------------------------------------------
(* C7 *)

\* project/ holding src/ (holding utils/ and .cache/), node_modules/ and README.md
ExampleTree ==
    [p \in Paths |->
        IF p \in {<<>>, <<NmSrc>>, <<NmSrc, NmUtils>>, <<NmSrc, NmCache>>, <<NmNodeModules>>}
        THEN "dir"
        ELSE IF p = <<NmReadme>> THEN "file" ELSE "none"]

\* {"project": {"src": {"utils": {}}}}
ExampleDoc ==
    SetItem(EmptyDict, NmProject,
        DictVal(SetItem(EmptyDict, NmSrc,
            DictVal(SetItem(EmptyDict, NmUtils, DictVal(EmptyDict))))))

\* C7: the document written on a run that passes validation has exactly one
\* top-level key, the base name of the root directory, and its value is the
\* dict get_folder_hierarchy returned, error sentinel or not; the example
\* tree with ignore list [node_modules] gives the example document.
C7_Document ==
    (pc \in {"written", "done"} /\ exists(fs) /\ isdir(fs)) =>
        /\ outfile.exists
        /\ DOMAIN outfile.doc = {rootName}
        /\ outfile.doc[rootName] = DictVal(retval)
        /\ retval = Hierarchy(fs, <<>>, 1)
        /\ (fs = ExampleTree /\ rootName = NmProject /\ ignore_folders = {NmNodeModules})
              => outfile.doc = ExampleDoc

C7_Witness ==
    /\ pc = "done"
    /\ fs = ExampleTree
    /\ rootName = NmProject
    /\ ignore_folders = {NmNodeModules}
    /\ start_path = <<NmProject, NmEmpty>>
    /\ outfile.doc = ExampleDoc

-----------------------------------------------------------------------------
(* C8 *)

MainSteps ==
    { <<"start", "validated">>, <<"validated", "built">>, <<"built", "written">>,
      <<"written", "done">>, <<"start", "done">> }

\* C8 as stated: every run moves Start -> Validated -> Built -> Written ->
\* Done, or Start -> Done on a validation failure, and in no other way.
C8_AsStated == [][pc' # pc => <<pc, pc'>> \in MainSteps]_vars

\* C8, amended: every run moves Start -> Validated -> Built -> Written ->
\* Done, or Start -> Done on a validation failure, or ends at Built when
\* opening the output file fails (the failure is not caught); the builder is
\* called only after both validations passed, the output file is opened only
\* after the builder returned, at most once, and changes only on the step
\* Built -> Written.
C8_RunOrder ==
    /\ [][pc' # pc => <<pc, pc'>> \in MainSteps \cup {<<"built", "failed">>}]_vars
    /\ [][(pc = "start" /\ pc' = "done") => ~(exists(fs) /\ isdir(fs))]_vars
    /\ [][(pc = "built" /\ pc' = "failed") => ~outWritable]_vars
    /\ [](builder # "idle" => (pc # "start" /\ exists(fs) /\ isdir(fs)))
    /\ [](opens <= 1)
    /\ [](opens > 0 => (builder = "returned" /\ stack = <<>> /\ pc \notin {"start", "validated"}))
    /\ [][outfile' # outfile => (pc = "built" /\ pc' = "written" /\ opens' = opens + 1)]_vars

C8_Witness ==
    /\ pc = "done"
    /\ opens = 1
    /\ builder = "returned"
    /\ Len(stdout) = 3
    /\ outfile # InitialOutfile

-----------------------------------------------------------------------------
(* C10 *)

\* Directory p is reached from the root through visible, non-ignored,
\* readable directories.
RECURSIVE Reachable(_)
Reachable(p) ==
    \/ p = <<>>
    \/ /\ Reachable(Parent(p))
       /\ fs[Parent(p)] = "dir"
       /\ fs[p] \in DirKinds
       /\ ~StartsWithDot(BaseName(p))
       /\ BaseName(p) \notin ignore_folders

\* Directory p is reached from the root through visible, non-ignored
\* directories none of which is an error sentinel in the returned dict.
RECURSIVE ReachableThroughDicts(_)
ReachableThroughDicts(p) ==
    \/ p = <<>>
    \/ /\ ReachableThroughDicts(Parent(p))
       /\ InDict(retval, Parent(p))
       /\ ~IsSentinel(Sub(retval, Parent(p)))
       /\ fs[p] \in DirKinds
       /\ ~StartsWithDot(BaseName(p))
       /\ BaseName(p) \notin ignore_folders

\* C10 as stated: when the call has returned, every directory reachable
\* through visible, non-ignored, readable directories has been listed
\* exactly once.
C10_AsStated ==
    builder = "returned" => \A p \in Paths : Reachable(p) => listed[p] = 1

\* C10, amended: the run ends; no directory is ever listed twice; and when
\* the call has returned, the directories listed, once each, are exactly
\* those reachable from the root through visible, non-ignored directories
\* none of which became an error sentinel (by a failed listing or type check,
\* or by exhausting the recursion depth): nothing beneath a hidden
\* directory, an ignored directory or an error sentinel is listed.
C10_ListedOnce ==
    /\ <>Finished
    /\ [](\A p \in Paths : listed[p] <= 1)
    /\ [](builder = "returned" =>
            \A p \in Paths : listed[p] = IF ReachableThroughDicts(p) THEN 1 ELSE 0)

C10_Witness ==
    /\ Finished
    /\ fs[ChainPath(MaxChain + 1)] = "dir"
    /\ fs[<<NmSrc, NmCache, NmUtils>>] = "dir"
    /\ fs[<<NmNodeModules, NmSrc>>] = "dir"
    /\ NmNodeModules \in ignore_folders
    /\ listed[<<NmSrc, NmUtils>>] = 1
    /\ listed[ChainPath(MaxChain + 1)] = 0

====
